---- MODULE Spec2Model ----
(***************************************************************************)
(* Model of the reimbursement calculator (calculate_reimbursement.py) and  *)
(* of the coefficient deriver (derive_coefficients.py).                    *)
(*                                                                         *)
(* Numbers.  A Python float is modelled as a record                        *)
(*     [k |-> "fin" | "nan" | "inf" | "ninf" | "none", c |-> Int, s |-> Nat]*)
(* A finite value is c cents plus s / SubPerCent of a cent, 0 <= s <       *)
(* SubPerCent, so that a product of a six-decimal coefficient with an      *)
(* amount given to the cent is represented exactly (the binary rounding    *)
(* error of a 64-bit float is abstracted to exact decimal arithmetic).     *)
(* "none" is Python's None (a local that was never assigned).              *)
(***************************************************************************)
EXTENDS Integers, Sequences, FiniteSets, TLC

VARIABLES argv, pc, exit_code, stdout, stderr, result, branch, calls,
          data, dpc, idx, clusters, cur, coefficients, warnings, derr

cvars == <<argv, pc, exit_code, stdout, stderr, result, branch, calls>>
dvars == <<data, dpc, idx, clusters, cur, coefficients, warnings, derr>>
vars == <<cvars, dvars>>

(***************************************************************************)
(* Bounds of the explored input domain.                                    *)
(***************************************************************************)
MaxDays == 13
MaxData == 4

(***************************************************************************)
(* Float arithmetic.                                                       *)
(***************************************************************************)
CentsPerUnit == 10 * 10
SubPerCent == 10^6
SubPerMicro == 10 * 10
MicroPerCent == 10^4

Fin(c, s) == [k |-> "fin", c |-> c, s |-> s]
NaN == [k |-> "nan", c |-> 0, s |-> 0]
PInf == [k |-> "inf", c |-> 0, s |-> 0]
NInf == [k |-> "ninf", c |-> 0, s |-> 0]
None == [k |-> "none", c |-> 0, s |-> 0]

\* int -> float conversion of a whole number of units
FromInt(n) == Fin(n * CentsPerUnit, 0)

\* a < b on floats; every comparison with NaN is false
FLt(a, b) ==
    IF a.k = "nan" \/ b.k = "nan" THEN FALSE
    ELSE IF a.k = "ninf" THEN b.k # "ninf"
    ELSE IF a.k = "inf" THEN FALSE
    ELSE IF b.k = "ninf" THEN FALSE
    ELSE IF b.k = "inf" THEN TRUE
    ELSE a.c < b.c \/ (a.c = b.c /\ a.s < b.s)

\* a >= b on floats; every comparison with NaN is false
FGe(a, b) ==
    IF a.k = "nan" \/ b.k = "nan" THEN FALSE
    ELSE ~FLt(a, b)

\* a <= b on floats
FLe(a, b) == FGe(b, a)

\* a + b
FAdd(a, b) ==
    IF a.k = "nan" \/ b.k = "nan" THEN NaN
    ELSE IF a.k = "inf" THEN (IF b.k = "ninf" THEN NaN ELSE PInf)
    ELSE IF a.k = "ninf" THEN (IF b.k = "inf" THEN NaN ELSE NInf)
    ELSE IF b.k # "fin" THEN b
    ELSE Fin(a.c + b.c + ((a.s + b.s) \div SubPerCent), (a.s + b.s) % SubPerCent)

\* -a
FNeg(a) ==
    IF a.k = "inf" THEN NInf
    ELSE IF a.k = "ninf" THEN PInf
    ELSE IF a.k = "nan" THEN NaN
    ELSE IF a.s = 0 THEN Fin(0 - a.c, 0)
    ELSE Fin(0 - a.c - 1, SubPerCent - a.s)

\* coef * x, coef a positive coefficient in millionths, x an amount in whole
\* cents: x = 100*xw + xf; coef*xw is in millionths of a unit, coef*xf in
\* hundred-millionths
FMulCoef(coef, x) ==
    IF x.k # "fin" THEN x
    ELSE LET xw == x.c \div CentsPerUnit
             xf == x.c % CentsPerUnit
             t1 == coef * xw
             t2 == coef * xf
             sub == (t1 % MicroPerCent) * SubPerMicro + (t2 % SubPerCent)
         IN  Fin((t1 \div MicroPerCent) + (t2 \div SubPerCent) + (sub \div SubPerCent),
                 sub % SubPerCent)

\* x / d for an integer d >= 1 (the quotient is kept to 1/SubPerCent of a cent)
FDivInt(x, d) ==
    IF x.k # "fin" THEN x
    ELSE Fin(x.c \div d, ((x.c % d) * SubPerCent) \div d)

\* round(x, 2): nearest cent, an exact half goes to the even cent
Round2(x) ==
    IF x.k # "fin" THEN x
    ELSE IF 2 * x.s < SubPerCent THEN Fin(x.c, 0)
    ELSE IF 2 * x.s > SubPerCent THEN Fin(x.c + 1, 0)
    ELSE IF x.c % 2 = 0 THEN Fin(x.c, 0)
    ELSE Fin(x.c + 1, 0)

(***************************************************************************)
(* calculate_reimbursement.py: the calculator.                             *)
(***************************************************************************)
\* coefficients, in millionths
days_coef0 == 87111841
miles_coef0 == 673030
receipts_coef0 == 285504
days_coef1 == 94201797
miles_coef1 == 462207
receipts_coef1 == 253290
days_coef2 == 73582926
miles_coef2 == 506600
receipts_coef2 == 462858

LongHighReceipts == 0
ShortLowActivity == 1
MidHighMileage == 2
Default == 3
NoBranch == 0 - 1

Hundred == FromInt(100)
FourHundred == FromInt(400)
Zero == FromInt(0)

\* receipts_per_day = total_receipts_amount / trip_duration_days
receipts_per_day(days, receipts) == FDivInt(receipts, days)

\* variant: the mileage rule is tested first
Cluster_MileageFirst(days, miles, receipts) ==
    IF days <= 9 /\ FGe(miles, FourHundred)
        THEN MidHighMileage
    ELSE IF 5 <= days /\ days <= 12 /\ FGe(receipts_per_day(days, receipts), Hundred)
        THEN LongHighReceipts
    ELSE IF days <= 6 /\ FLt(receipts_per_day(days, receipts), Hundred)
        THEN ShortLowActivity
    ELSE Default

\* variant: the receipts-per-day boundary of the first rule is strict
Cluster_StrictBoundary(days, miles, receipts) ==
    IF 5 <= days /\ days <= 12 /\ FLt(Hundred, receipts_per_day(days, receipts))
        THEN LongHighReceipts
    ELSE IF days <= 6 /\ FLt(receipts_per_day(days, receipts), Hundred)
        THEN ShortLowActivity
    ELSE IF days <= 9 /\ FGe(miles, FourHundred)
        THEN MidHighMileage
    ELSE Default

\* variant: the mileage rule takes the day range of the first rule
Cluster_MileageLongTrips(days, miles, receipts) ==
    IF 5 <= days /\ days <= 12 /\ FGe(receipts_per_day(days, receipts), Hundred)
        THEN LongHighReceipts
    ELSE IF days <= 6 /\ FLt(receipts_per_day(days, receipts), Hundred)
        THEN ShortLowActivity
    ELSE IF days <= 12 /\ FGe(miles, FourHundred)
        THEN MidHighMileage
    ELSE Default

\* the if / elif / elif / else chain: the branch taken
Cluster(days, miles, receipts) ==
    IF 5 <= days /\ days <= 12 /\ FGe(receipts_per_day(days, receipts), Hundred)
        THEN LongHighReceipts
    ELSE IF days <= 6 /\ FLt(receipts_per_day(days, receipts), Hundred)
        THEN ShortLowActivity
    ELSE IF days <= 9 /\ FGe(miles, FourHundred)
        THEN MidHighMileage
    ELSE Default

\* variant: the receipts term is subtracted
Linear_SubReceipts(dc, mc, rc, days, miles, receipts) ==
    FAdd(FAdd(FMulCoef(dc, FromInt(days)), FMulCoef(mc, miles)), FNeg(FMulCoef(rc, receipts)))

\* dc * days + mc * miles + rc * receipts
Linear(dc, mc, rc, days, miles, receipts) ==
    FAdd(FAdd(FMulCoef(dc, FromInt(days)), FMulCoef(mc, miles)), FMulCoef(rc, receipts))

\* the expression assigned to reimbursement in each branch
Formula(b, days, miles, receipts) ==
    IF b = LongHighReceipts
        THEN Linear(days_coef0, miles_coef0, receipts_coef0, days, miles, receipts)
    ELSE IF b = ShortLowActivity
        THEN Linear(days_coef1, miles_coef1, receipts_coef1, days, miles, receipts)
    ELSE IF b = MidHighMileage
        THEN Linear(days_coef2, miles_coef2, receipts_coef2, days, miles, receipts)
    ELSE Linear(days_coef1, miles_coef1, receipts_coef1, days, miles, receipts)

calculate_reimbursement(days, miles, receipts) ==
    Round2(Formula(Cluster(days, miles, receipts), days, miles, receipts))

(***************************************************************************)
(* Command-line arguments.  An argument string is modelled by its shape:   *)
(*   "int"  a decimal integer literal of value v          ("5", "-1")        *)
(*   "dec"  a literal with a decimal point, v cents       ("599.99")         *)
(*   "nan"  the text nan;  "inf" the text inf (v = 1) or -inf (v = -1)      *)
(*   "bad"  a text that is no number                      ("abc")            *)
(***************************************************************************)
Tok(t, v) == [t |-> t, v |-> v]

\* int(s): only an integer literal parses
ParseInt(tok) ==
    IF tok.t = "int" THEN [ok |-> TRUE, v |-> tok.v]
    ELSE [ok |-> FALSE, v |-> 0]

\* float(s): integer and decimal literals, nan and inf parse
ParseFloat(tok) ==
    IF tok.t = "int" THEN [ok |-> TRUE, v |-> FromInt(tok.v)]
    ELSE IF tok.t = "dec" THEN [ok |-> TRUE, v |-> Fin(tok.v, 0)]
    ELSE IF tok.t = "nan" THEN [ok |-> TRUE, v |-> NaN]
    ELSE IF tok.t = "inf" THEN [ok |-> TRUE, v |-> IF tok.v < 0 THEN NInf ELSE PInf]
    ELSE [ok |-> FALSE, v |-> None]

NoOutput == [kind |-> "empty", neg |-> FALSE, ip |-> 0, frac |-> <<>>]

\* f"{result:.2f}"
Format2f(x) ==
    IF x.k = "fin"
        THEN LET cents == Round2(x).c
                 a == IF cents < 0 THEN 0 - cents ELSE cents
             IN  [kind |-> "fixed", neg |-> cents < 0, ip |-> a \div CentsPerUnit,
                  frac |-> <<(a % CentsPerUnit) \div 10, a % 10>>]
    ELSE [kind |-> x.k, neg |-> x.k = "ninf", ip |-> 0, frac |-> <<>>]

UsageMsg == "Usage: python3 calculate_reimbursement.py <days> <miles> <receipts>"
FormatMsg == "Error: Invalid input format"
RangeMsg == "Error: All inputs must be non-negative, and days must be positive"

\* variant: negative miles are not rejected
RangeViolation_NoMiles(days, miles, receipts) ==
    days < 1 \/ FLt(receipts, Zero)

\* the condition of the range check
RangeViolation(days, miles, receipts) ==
    days < 1 \/ FLt(miles, Zero) \/ FLt(receipts, Zero)

\* argv holds sys.argv[1:]
ArgsParse ==
    /\ ParseInt(argv[1]).ok
    /\ ParseFloat(argv[2]).ok
    /\ ParseFloat(argv[3]).ok

ArgDays == ParseInt(argv[1]).v
ArgMiles == ParseFloat(argv[2]).v
ArgReceipts == ParseFloat(argv[3]).v

Exit(code, out, err) ==
    /\ pc' = "done"
    /\ exit_code' = code
    /\ stdout' = out
    /\ stderr' = err

MainUsage ==
    /\ pc = "start"
    /\ Len(argv) + 1 # 4
    /\ Exit(1, NoOutput, UsageMsg)
    /\ UNCHANGED <<argv, result, branch, calls, dvars>>

MainFormatError ==
    /\ pc = "start"
    /\ Len(argv) + 1 = 4
    /\ ~ArgsParse
    /\ Exit(1, NoOutput, FormatMsg)
    /\ UNCHANGED <<argv, result, branch, calls, dvars>>

MainRangeError ==
    /\ pc = "start"
    /\ Len(argv) + 1 = 4
    /\ ArgsParse
    /\ RangeViolation(ArgDays, ArgMiles, ArgReceipts)
    /\ Exit(1, NoOutput, RangeMsg)
    /\ UNCHANGED <<argv, result, branch, calls, dvars>>

MainSuccess ==
    /\ pc = "start"
    /\ Len(argv) + 1 = 4
    /\ ArgsParse
    /\ ~RangeViolation(ArgDays, ArgMiles, ArgReceipts)
    /\ result' = calculate_reimbursement(ArgDays, ArgMiles, ArgReceipts)
    /\ branch' = Cluster(ArgDays, ArgMiles, ArgReceipts)
    /\ calls' = calls + 1
    /\ Exit(0, Format2f(result'), "")
    /\ UNCHANGED <<argv, dvars>>

(***************************************************************************)
(* The explored command lines.                                             *)
(***************************************************************************)
DaysTokens ==
    {Tok("int", n) : n \in (0 - 1)..MaxDays} \cup {Tok("dec", 500), Tok("nan", 0), Tok("bad", 0)}

MilesTokens ==
    {Tok("int", n) : n \in {0 - 1000, 0 - 5, 0, 100, 399, 400, 450, 500, 900}}
        \cup {Tok("dec", 39999), Tok("nan", 0), Tok("inf", 1), Tok("inf", 0 - 1), Tok("bad", 0)}

ReceiptsTokens ==
    {Tok("int", n) : n \in {0 - 1, 0, 10, 50, 300, 350}}
        \cup {Tok("int", 100 * n) : n \in 1..MaxDays}
        \cup {Tok("dec", 59999), Tok("dec", 49999), Tok("dec", 5005),
              Tok("nan", 0), Tok("inf", 1), Tok("bad", 0)}

OtherTokens == {Tok("int", 3), Tok("bad", 0)}

ArgvSet ==
    {<<d, m, r>> : d \in DaysTokens, m \in MilesTokens, r \in ReceiptsTokens}
        \cup {<<>>}
        \cup {<<a>> : a \in OtherTokens}
        \cup {<<a, b>> : a \in OtherTokens, b \in OtherTokens}
        \cup {<<a, b, c, d>> : a \in OtherTokens, b \in OtherTokens,
                               c \in OtherTokens, d \in OtherTokens}

DeriverIdle ==
    /\ data = <<>>
    /\ dpc = "off"
    /\ idx = 1
    /\ clusters = [c \in 0..2 |-> <<>>]
    /\ cur = 0
    /\ coefficients = {}
    /\ warnings = {}
    /\ derr = ""

Init ==
    /\ argv \in ArgvSet
    /\ pc = "start"
    /\ exit_code = 0 - 1
    /\ stdout = NoOutput
    /\ stderr = ""
    /\ result = None
    /\ branch = NoBranch
    /\ calls = 0
    /\ DeriverIdle

Next ==
    \/ MainUsage
    \/ MainFormatError
    \/ MainRangeError
    \/ MainSuccess

Spec == Init /\ [][Next]_vars

(***************************************************************************)
(* Properties of the calculator.                                           *)
(***************************************************************************)
Done == pc = "done"

\* a finished run whose three arguments parsed
Parsed == Done /\ Len(argv) = 3 /\ ArgsParse

\* a finished run on a valid trip: days >= 1, miles >= 0, receipts >= 0
ValidTrip ==
    /\ Parsed
    /\ ArgDays >= 1
    /\ FGe(ArgMiles, Zero)
    /\ FGe(ArgReceipts, Zero)

\* the three rules, stated on the inputs without the division
Rule1(d, r) == 5 <= d /\ d <= 12 /\ FGe(r, FromInt(100 * d))
Rule2(d, r) == d <= 6 /\ FLt(r, FromInt(100 * d))
Rule3(d, m) == d <= 9 /\ FGe(m, FromInt(400))

FirstMatch(d, m, r) ==
    IF Rule1(d, r) THEN LongHighReceipts
    ELSE IF Rule2(d, r) THEN ShortLowActivity
    ELSE IF Rule3(d, m) THEN MidHighMileage
    ELSE Default

FormulaOf(b, d, m, r) ==
    CASE b = LongHighReceipts ->
            FAdd(FAdd(FMulCoef(87111841, FromInt(d)), FMulCoef(673030, m)), FMulCoef(285504, r))
      [] b = MidHighMileage ->
            FAdd(FAdd(FMulCoef(73582926, FromInt(d)), FMulCoef(506600, m)), FMulCoef(462858, r))
      [] OTHER ->
            FAdd(FAdd(FMulCoef(94201797, FromInt(d)), FMulCoef(462207, m)), FMulCoef(253290, r))

\* C1: for every valid trip the calculator evaluates the formula of the first
\* rule that matches in the order rule 1, rule 2, rule 3, Default (Default
\* with the rule 2 formula); a trip that satisfies rule 3 together with rule 1
\* or rule 2 never gets the rule 3 formula.
C1_FirstMatchWins ==
    ValidTrip =>
        /\ branch = FirstMatch(ArgDays, ArgMiles, ArgReceipts)
        /\ result = Round2(FormulaOf(FirstMatch(ArgDays, ArgMiles, ArgReceipts),
                                     ArgDays, ArgMiles, ArgReceipts))
        /\ (Rule3(ArgDays, ArgMiles)
              /\ (Rule1(ArgDays, ArgReceipts) \/ Rule2(ArgDays, ArgReceipts))
            => branch # MidHighMileage)

\* a valid trip that satisfies rule 3 and rule 1 and took the rule 1 branch
C1_Witness ==
    /\ ValidTrip
    /\ Rule3(ArgDays, ArgMiles)
    /\ Rule1(ArgDays, ArgReceipts)
    /\ branch = LongHighReceipts

\* C2: receipts exactly 100*days with 5 <= days <= 12 is LongHighReceipts,
\* receipts strictly below 100*days with days <= 6 is ShortLowActivity, and no
\* valid trip satisfies the conditions of both rule 1 and rule 2.
C2_BoundaryBelongsToRule1 ==
    ValidTrip =>
        /\ (5 <= ArgDays /\ ArgDays <= 12 /\ ArgReceipts = FromInt(100 * ArgDays)
            => branch = LongHighReceipts)
        /\ (ArgDays <= 6 /\ FLt(ArgReceipts, FromInt(100 * ArgDays))
            => branch = ShortLowActivity)
        /\ ~(/\ 5 <= ArgDays /\ ArgDays <= 12
             /\ FGe(receipts_per_day(ArgDays, ArgReceipts), Hundred)
             /\ ArgDays <= 6
             /\ FLt(receipts_per_day(ArgDays, ArgReceipts), Hundred))

\* days = 6, receipts = 599.99 was classified ShortLowActivity
C2_Witness ==
    /\ ValidTrip
    /\ ArgDays = 6
    /\ ArgReceipts = Fin(59999, 0)
    /\ branch = ShortLowActivity

\* C3: with days < 1 or miles < 0 or receipts < 0 the run fails with the range
\* error before calculate_reimbursement is called and yields no value.
C3_RangeErrorBeforeComputation ==
    (Parsed /\ (ArgDays < 1 \/ FLt(ArgMiles, Zero) \/ FLt(ArgReceipts, Zero))) =>
        /\ exit_code = 1
        /\ stderr = RangeMsg
        /\ calls = 0
        /\ result = None
        /\ stdout = NoOutput

\* compute(3, -5, 10): only the miles precondition is violated
C3_Witness ==
    /\ Parsed
    /\ ArgDays = 3
    /\ ArgMiles = FromInt(0 - 5)
    /\ ArgReceipts = FromInt(10)
    /\ exit_code = 1

\* C4: every invocation ends in exactly one of four outcomes, decided in the
\* order usage error, input-format error, range error, success with the
\* result printed with exactly two decimal places; nothing is written to
\* stdout on an exit-1 outcome.
C4_FourOutcomes ==
    Done =>
        IF Len(argv) # 3
            THEN exit_code = 1 /\ stderr = UsageMsg /\ stdout = NoOutput
        ELSE IF ~ArgsParse
            THEN exit_code = 1 /\ stderr = FormatMsg /\ stdout = NoOutput
        ELSE IF ArgDays < 1 \/ FLt(ArgMiles, Zero) \/ FLt(ArgReceipts, Zero)
            THEN exit_code = 1 /\ stderr = RangeMsg /\ stdout = NoOutput
        ELSE /\ exit_code = 0
             /\ stderr = ""
             /\ stdout.kind = "fixed"
             /\ Len(stdout.frac) = 2

\* C5: for every valid trip the returned reimbursement is non-negative.
C5_NonNegative ==
    ValidTrip => exit_code = 0 /\ FGe(result, Zero)

\* a valid trip in the Default branch with total receipts of 1200 or more
C5_Witness ==
    /\ ValidTrip
    /\ branch = Default
    /\ FGe(ArgReceipts, FromInt(1200))
    /\ FGe(result, Zero)

\* C6: the returned value is the branch's formula value rounded to two
\* decimals, half to even, not clamped, and the command line prints it with
\* exactly two digits after the decimal point.
C6_RoundedAndPrinted ==
    (Done /\ exit_code = 0) =>
        LET f == FormulaOf(branch, ArgDays, ArgMiles, ArgReceipts)
        IN  /\ result = Round2(f)
            /\ stdout.kind = "fixed"
            /\ Len(stdout.frac) = 2
            /\ result.k = "fin"
            /\ result.s = 0
            /\ (IF stdout.neg THEN 0 - 1 ELSE 1)
                  * (stdout.ip * 100 + stdout.frac[1] * 10 + stdout.frac[2]) = result.c

MilesInputs == {ParseFloat(t).v : t \in {u \in MilesTokens : ParseFloat(u).ok}}

\* C10 as stated: for valid days and receipts and 0 <= m1 <= m2 the
\* reimbursement at m1 is at most the reimbursement at m2.
C10_MonotoneInMiles ==
    ValidTrip =>
        \A m1 \in MilesInputs :
            (FGe(m1, Zero) /\ FLe(m1, ArgMiles))
            => FLe(calculate_reimbursement(ArgDays, m1, ArgReceipts), result)

\* C10 amended: the same, except across the 400-mile threshold for trips of
\* 7 to 9 days with receipts below 100 per day.
C10_MonotoneExceptMidTrips ==
    ValidTrip =>
        \A m1 \in MilesInputs :
            (/\ FGe(m1, Zero)
             /\ FLe(m1, ArgMiles)
             /\ ~(/\ 7 <= ArgDays /\ ArgDays <= 9
                  /\ FLt(ArgReceipts, FromInt(100 * ArgDays))
                  /\ FLt(m1, FromInt(400))
                  /\ FGe(ArgMiles, FromInt(400))))
            => FLe(calculate_reimbursement(ArgDays, m1, ArgReceipts), result)

\* a trip of at most 4 days that reached the MidHighMileage branch at 400
\* miles, while a smaller mileage input stays in the Default branch
C10_Witness ==
    /\ ValidTrip
    /\ ArgDays <= 4
    /\ ArgMiles = FromInt(400)
    /\ branch = MidHighMileage
    /\ \E m1 \in MilesInputs :
          /\ FGe(m1, Zero)
          /\ Cluster(ArgDays, m1, ArgReceipts) = Default

(***************************************************************************)
(* derive_coefficients.py: the coefficient deriver.                        *)
(* An entry is entry["input"] as [days, miles, receipts]; expected_output *)
(* takes no part in the control flow and is left out.                      *)
(***************************************************************************)
Entry(d, m, r) == [days |-> d, miles |-> m, receipts |-> r]

Unclassified == 0 - 1

\* variant: the short-trip rule stops at 5 days
classify_trip_ShortTo5(entry) ==
    LET rpd == FDivInt(entry.receipts, entry.days)
    IN  IF 5 <= entry.days /\ entry.days <= 12 /\ FGe(rpd, Hundred) THEN 0
        ELSE IF entry.days <= 5 /\ FLt(rpd, Hundred) THEN 1
        ELSE IF entry.days <= 9 /\ FGe(entry.miles, FourHundred) THEN 2
        ELSE Unclassified

classify_trip(entry) ==
    LET rpd == FDivInt(entry.receipts, entry.days)
    IN  IF 5 <= entry.days /\ entry.days <= 12 /\ FGe(rpd, Hundred) THEN 0
        ELSE IF entry.days <= 6 /\ FLt(rpd, Hundred) THEN 1
        ELSE IF entry.days <= 9 /\ FGe(entry.miles, FourHundred) THEN 2
        ELSE Unclassified

\* the row [days, miles, receipts] of A, in whole units (the explored entries
\* carry whole amounts, so the rank is that of the matrix the code builds)
Row(e) == <<e.days, e.miles.c \div CentsPerUnit, e.receipts.c \div CentsPerUnit>>

Det2(a, b, c, d) == a * d - b * c

Det3(x, y, z) ==
    x[1] * Det2(y[2], y[3], z[2], z[3])
      - x[2] * Det2(y[1], y[3], z[1], z[3])
      + x[3] * Det2(y[1], y[2], z[1], z[2])

\* rank of the matrix whose rows are the rows of the entries
Rank(es) ==
    LET n == Len(es)
        R(i) == Row(es[i])
    IN  IF \E i, j, k \in 1..n : Det3(R(i), R(j), R(k)) # 0 THEN 3
        ELSE IF \E i, j \in 1..n : \E p, q \in 1..3 :
                    Det2(R(i)[p], R(i)[q], R(j)[p], R(j)[q]) # 0 THEN 2
        ELSE IF \E i \in 1..n : R(i) # <<0, 0, 0>> THEN 1
        ELSE 0

\* numpy.linalg.lstsq(A, y, rcond=None): raises LinAlgError when the SVD does
\* not converge, which is what a NaN in A produces; otherwise residuals is
\* empty when rank < 3 or the number of rows is <= 3
NonFinite(es) ==
    \E i \in 1..Len(es) : es[i].miles.k # "fin" \/ es[i].receipts.k # "fin"

lstsq(es) ==
    IF NonFinite(es) THEN [raises |-> TRUE, rank |-> 0, residuals |-> 0]
    ELSE [raises |-> FALSE, rank |-> Rank(es),
          residuals |-> IF Rank(es) < 3 \/ Len(es) <= 3 THEN 0 ELSE 1]

\* for entry in data: cluster = classify_trip(entry); ...append
ClassifyEntry ==
    /\ dpc = "classify"
    /\ idx <= Len(data)
    /\ LET cluster == classify_trip(data[idx])
       IN  clusters' = IF cluster # Unclassified
                         THEN [clusters EXCEPT ![cluster] = Append(@, data[idx])]
                         ELSE clusters
    /\ idx' = idx + 1
    /\ UNCHANGED <<data, dpc, cur, coefficients, warnings, derr, cvars>>

\* the grouping loop is exhausted; coefficients = {}
ClassifyDone ==
    /\ dpc = "classify"
    /\ idx > Len(data)
    /\ dpc' = "fit"
    /\ cur' = 0
    /\ coefficients' = {}
    /\ UNCHANGED <<data, idx, clusters, warnings, derr, cvars>>

\* if not cluster_data: continue
FitEmpty ==
    /\ dpc = "fit"
    /\ cur <= 2
    /\ clusters[cur] = <<>>
    /\ cur' = cur + 1
    /\ UNCHANGED <<data, dpc, idx, clusters, coefficients, warnings, derr, cvars>>

\* lstsq raised LinAlgError: the warning is printed, continue
FitLinAlgError ==
    /\ dpc = "fit"
    /\ cur <= 2
    /\ clusters[cur] # <<>>
    /\ lstsq(clusters[cur]).raises
    /\ warnings' = warnings \cup {cur}
    /\ cur' = cur + 1
    /\ UNCHANGED <<data, dpc, idx, clusters, coefficients, derr, cvars>>

\* residuals[0] on an empty array: IndexError is not caught by
\* except np.linalg.LinAlgError and leaves derive_linear_coefficients
FitIndexError ==
    /\ dpc = "fit"
    /\ cur <= 2
    /\ clusters[cur] # <<>>
    /\ ~lstsq(clusters[cur]).raises
    /\ lstsq(clusters[cur]).residuals = 0
    /\ dpc' = "aborted"
    /\ derr' = "IndexError"
    /\ UNCHANGED <<data, idx, clusters, cur, coefficients, warnings, cvars>>

\* coefficients[cluster] = (coef, residuals[0], y)
FitStore ==
    /\ dpc = "fit"
    /\ cur <= 2
    /\ clusters[cur] # <<>>
    /\ ~lstsq(clusters[cur]).raises
    /\ lstsq(clusters[cur]).residuals > 0
    /\ coefficients' = coefficients \cup {cur}
    /\ cur' = cur + 1
    /\ UNCHANGED <<data, dpc, idx, clusters, warnings, derr, cvars>>

\* return coefficients
FitReturn ==
    /\ dpc = "fit"
    /\ cur = 3
    /\ dpc' = "returned"
    /\ UNCHANGED <<data, idx, clusters, cur, coefficients, warnings, derr, cvars>>

(***************************************************************************)
(* The explored data files.                                                *)
(***************************************************************************)
EntrySet ==
    { Entry(5, FromInt(100), FromInt(600)),
      Entry(10, FromInt(900), FromInt(1200)),
      Entry(8, FromInt(0), FromInt(1000)),
      Entry(6, FromInt(100), FromInt(50)),
      Entry(7, FromInt(500), FromInt(350)),
      Entry(10, FromInt(100), FromInt(50)),
      Entry(6, NaN, FromInt(700)) }

DataSet == UNION {[1..n -> EntrySet] : n \in 0..MaxData}

CalculatorIdle ==
    /\ argv = <<>>
    /\ pc = "off"
    /\ exit_code = 0 - 1
    /\ stdout = NoOutput
    /\ stderr = ""
    /\ result = None
    /\ branch = NoBranch
    /\ calls = 0

InitDerive ==
    /\ data \in DataSet
    /\ dpc = "classify"
    /\ idx = 1
    /\ clusters = [c \in 0..2 |-> <<>>]
    /\ cur = 0
    /\ coefficients = {}
    /\ warnings = {}
    /\ derr = ""
    /\ CalculatorIdle

NextDerive ==
    \/ ClassifyEntry
    \/ ClassifyDone
    \/ FitEmpty
    \/ FitLinAlgError
    \/ FitIndexError
    \/ FitStore
    \/ FitReturn

SpecDerive == InitDerive /\ [][NextDerive]_vars

(***************************************************************************)
(* Properties of the deriver.                                              *)
(***************************************************************************)
InCluster(e, c) == \E i \in 1..Len(clusters[c]) : clusters[c][i] = e

\* the calculator's branch for an entry, as a cluster number
CalculatorCluster(e) ==
    LET b == Cluster(e.days, e.miles, e.receipts)
    IN  IF b = Default THEN Unclassified ELSE b

\* C8: for every record with days >= 1, classify_trip returns 0, 1 or 2
\* exactly when the calculator takes the LongHighReceipts, ShortLowActivity
\* or MidHighMileage branch, and -1 (the record joins no cluster) exactly
\* when the calculator takes the Default branch.
C8_SamePartition ==
    \A j \in 1..(idx - 1) :
        LET e == data[j]
        IN  e.days >= 1 =>
              /\ classify_trip(e) = CalculatorCluster(e)
              /\ \A c \in 0..2 : InCluster(e, c) <=> (CalculatorCluster(e) = c)

\* every record is grouped; one went to ShortLowActivity, one was discarded
C8_Witness ==
    /\ dpc = "fit"
    /\ clusters[1] # <<>>
    /\ \E j \in 1..Len(data) :
          /\ Cluster(data[j].days, data[j].miles, data[j].receipts) = Default
          /\ \A c \in 0..2 : ~InCluster(data[j], c)

\* a cluster whose least-squares solve gives no usable fit
Unusable(es) == es # <<>> /\ (NonFinite(es) \/ Len(es) <= 3 \/ Rank(es) < 3)

\* C9: a cluster without a usable fit is reported with a warning and skipped,
\* the run goes on to the remaining clusters and returns the coefficients of
\* the clusters that succeeded; a failure in one cluster never aborts the run.
C9_FailureNeverAborts ==
    /\ dpc # "aborted"
    /\ dpc = "returned" =>
          \A c \in 0..2 :
              /\ Unusable(clusters[c]) => (c \in warnings /\ c \notin coefficients)
              /\ (clusters[c] # <<>> /\ ~Unusable(clusters[c])) => c \in coefficients

====
